---- MODULE Spec2Model ----
(***************************************************************************)
(* Video editor backend (src/main.py): asset upload and the render         *)
(* pipeline.  Floats are modelled by small integers (seconds), Optional[T] *)
(* by a set with at most one element ({} is None), HTTP results by their   *)
(* status code.  Calls into the media engine (moviepy) and the database    *)
(* may raise; where they can, the outcome is an input of the action.       *)
(***************************************************************************)
EXTENDS Integers, Sequences, FiniteSets, TLC

\* ------------------------------------------------------------------ bounds
NReq == 2
MaxClock == 2
MaxUploads == 2

Reqs == 1..NReq
ParamReqs == {1}

\* ------------------------------------------------------------ value helpers
None == {}
Some(v) == {v}
Val(o) == CHOOSE v \in o : TRUE
\* Python truthiness of an Optional number: None and 0 are falsy.
Truthy(o) == o # {} /\ o # {0}
Max(a, b) == IF a >= b THEN a ELSE b
Min(a, b) == IF a <= b THEN a ELSE b

Projects == {"p1", "p2"}

\* What a stored file decodes to: ok = the container can be opened.
MediaAV == [ok |-> TRUE, duration |-> 3, w |-> 640, h |-> 360, audio |-> TRUE]
MediaV == [ok |-> TRUE, duration |-> 2, w |-> 320, h |-> 240, audio |-> FALSE]
MediaBad == [ok |-> FALSE, duration |-> 0, w |-> 0, h |-> 0, audio |-> FALSE]
Medias == {MediaAV, MediaBad}

\* Declared content types, as <<type, subtype>>; None when absent.
ContentTypes ==
    {None, Some(<<"video", "mp4">>), Some(<<"audio", "mpeg">>),
     Some(<<"image", "png">>), Some(<<"text", "plain">>)}

VARIABLES moviepy, assets, uploadDir, uploadLog, renders, outputs, clock,
          nextId, req

vars == <<moviepy, assets, uploadDir, uploadLog, renders, outputs, clock,
          nextId, req>>

\* ------------------------------------------------------------ the database
\* get_documents("asset", {"project_id": p})
GetAssets(p) == {d \in assets : d.project_id = p}

\* ------------------------------------------------------------------ upload
KindOf(ct) ==
    IF ct = None THEN "other"
    ELSE IF Val(ct)[1] = "video" THEN "video"
    ELSE IF Val(ct)[1] = "audio" THEN "audio"
    ELSE IF Val(ct)[1] = "image" THEN "image"
    ELSE "other"

\* Where the probe block can raise: opening the container, closing its
\* reader, closing the clip.  An undecodable file always fails to open.
ProbeFailures(kind, media) ==
    IF kind = "video" /\ moviepy
    THEN IF media.ok THEN {"none", "open", "reader_close", "close"}
         ELSE {"open"}
    ELSE {"none"}

\* duration, width, height as they stand when the probe block is left.
ProbedDuration(kind, media, failAt) ==
    IF kind = "video" /\ moviepy /\ failAt # "open"
    THEN (IF media.duration # 0 THEN Some(media.duration) ELSE None)
    ELSE None

ProbedWidth(kind, media, failAt) ==
    IF kind = "video" /\ moviepy /\ failAt # "open" THEN Some(media.w) ELSE None

ProbedHeight(kind, media, failAt) ==
    IF kind = "video" /\ moviepy /\ failAt # "open" THEN Some(media.h) ELSE None

UploadEntry(project, ct, failAt, dbOk, status, id, kind, d, w, h) ==
    [project_id |-> project, content_type |-> ct, probe |-> failAt,
     insert |-> dbOk, status |-> status, id |-> id, kind |-> kind,
     duration |-> d, width |-> w, height |-> h]

\* The probe's exception propagates instead of being swallowed.
UploadAsset_propagate(project, ct, fname, media, failAt, dbOk) ==
    LET kind == KindOf(ct)
        path == <<clock, fname>>
        d == ProbedDuration(kind, media, failAt)
        w == ProbedWidth(kind, media, failAt)
        h == ProbedHeight(kind, media, failAt)
    IN  /\ Len(uploadLog) < MaxUploads
        /\ failAt \in ProbeFailures(kind, media)
        /\ IF kind = "other"
           THEN /\ uploadLog' = Append(uploadLog,
                       UploadEntry(project, ct, "none", TRUE, 400, None, kind,
                                   None, None, None))
                /\ UNCHANGED <<assets, uploadDir, nextId>>
           ELSE /\ uploadDir' = {f \in uploadDir : f.path # path}
                                   \cup {[path |-> path, media |-> media]}
                /\ IF dbOk /\ failAt = "none"
                   THEN /\ assets' = assets \cup
                               {[id |-> nextId, project_id |-> project,
                                 kind |-> kind, duration |-> d, width |-> w,
                                 height |-> h, path |-> path]}
                        /\ nextId' = nextId + 1
                        /\ uploadLog' = Append(uploadLog,
                               UploadEntry(project, ct, failAt, dbOk, 200,
                                           Some(nextId), kind, d, w, h))
                   ELSE /\ uploadLog' = Append(uploadLog,
                               UploadEntry(project, ct, failAt, dbOk, 500,
                                           None, kind, None, None, None))
                        /\ UNCHANGED <<assets, nextId>>
        /\ UNCHANGED <<moviepy, renders, outputs, clock, req>>

\* POST /assets/upload
UploadAsset(project, ct, fname, media, failAt, dbOk) ==
    LET kind == KindOf(ct)
        path == <<clock, fname>>
        d == ProbedDuration(kind, media, failAt)
        w == ProbedWidth(kind, media, failAt)
        h == ProbedHeight(kind, media, failAt)
    IN  /\ Len(uploadLog) < MaxUploads
        /\ failAt \in ProbeFailures(kind, media)
        /\ IF kind = "other"
           THEN /\ uploadLog' = Append(uploadLog,
                       UploadEntry(project, ct, "none", TRUE, 400, None, kind,
                                   None, None, None))
                /\ UNCHANGED <<assets, uploadDir, nextId>>
           ELSE /\ uploadDir' = {f \in uploadDir : f.path # path}
                                   \cup {[path |-> path, media |-> media]}
                /\ IF dbOk
                   THEN /\ assets' = assets \cup
                               {[id |-> nextId, project_id |-> project,
                                 kind |-> kind, duration |-> d, width |-> w,
                                 height |-> h, path |-> path]}
                        /\ nextId' = nextId + 1
                        /\ uploadLog' = Append(uploadLog,
                               UploadEntry(project, ct, failAt, dbOk, 200,
                                           Some(nextId), kind, d, w, h))
                   ELSE /\ uploadLog' = Append(uploadLog,
                               UploadEntry(project, ct, failAt, dbOk, 500,
                                           None, kind, None, None, None))
                        /\ UNCHANGED <<assets, nextId>>
        /\ UNCHANGED <<moviepy, renders, outputs, clock, req>>

\* datetime.utcnow() moves on between two reads, or does not.
Tick ==
    /\ clock < MaxClock
    /\ clock' = clock + 1
    /\ UNCHANGED <<moviepy, assets, uploadDir, uploadLog, renders, outputs,
                   nextId, req>>

\* --------------------------------------------------------------- rendering
\* Local state of one POST /render request.
IdleReq ==
    [pc |-> "idle",
     payload |-> [project_id |-> "p1", asset_id |-> 0, start |-> 0,
                  end |-> None, speed |-> 1, volume |-> 1, rotate |-> 0,
                  resolution_width |-> None, resolution_height |-> None],
     asset |-> None, clip |-> None, start |-> 0, end |-> 0, applied |-> {},
     reader |-> "none", audio |-> "none", sub |-> "none",
     out_name |-> None, encoded |-> FALSE, status |-> 0,
     failedAt |-> "none", render_id |-> None]

\* raise: the request ends with `status`; nothing else of it changes.
Raise(q, status, where) ==
    [q EXCEPT !.pc = "done", !.status = status, !.failedAt = where]

\* The fallback loop searches every project.
FindAsset_unscoped(project_id, asset_id) ==
    LET first == {d \in GetAssets(project_id) : d.id = asset_id}
    IN  IF first # {} THEN first ELSE {d \in assets : d.id = asset_id}

\* Both loops of the asset fetch; at most one document has a given id.
FindAsset(project_id, asset_id) ==
    LET first == {d \in GetAssets(project_id) : d.id = asset_id}
    IN  IF first # {} THEN first
        ELSE {d \in GetAssets(project_id) : d.id = asset_id}

\* os.path.exists(source_path), and the file's content when it exists.
SourceFiles(path) == {f \in uploadDir : f.path = path}

\* The handler up to the try block: backend check, asset fetch, source file.
RenderFetch(r, P) ==
    /\ req[r].pc = "idle"
    /\ \E p \in P :
         LET q == [req[r] EXCEPT !.payload = p]
             found == FindAsset(p.project_id, p.asset_id)
         IN  req' = [req EXCEPT ![r] =
                 IF ~moviepy THEN Raise(q, 500, "backend")
                 ELSE IF found = {} THEN Raise(q, 404, "asset")
                 ELSE IF SourceFiles(Val(found).path) = {}
                      THEN Raise(q, 404, "source")
                 ELSE [q EXCEPT !.pc = "open", !.asset = found]]
    /\ UNCHANGED <<moviepy, assets, uploadDir, uploadLog, renders, outputs,
                   clock, nextId>>

\* The stored file of the request's asset, once the request has fetched it.
SourceOf(q) == SourceFiles(Val(q.asset).path)

\* clip = VideoFileClip(source_path)
RenderOpen(r) ==
    /\ req[r].pc = "open"
    /\ \E ok \in BOOLEAN :
         /\ ok => (SourceOf(req[r]) # {} /\ Val(SourceOf(req[r])).media.ok)
         /\ req' = [req EXCEPT ![r] =
                IF ok
                THEN [@ EXCEPT !.pc = "transform", !.reader = "open",
                        !.clip = Some(Val(SourceOf(req[r])).media),
                        !.audio = IF Val(SourceOf(req[r])).media.audio
                                  THEN "open" ELSE "none"]
                ELSE Raise(@, 500, "open")]
    /\ UNCHANGED <<moviepy, assets, uploadDir, uploadLog, renders, outputs,
                   clock, nextId>>

\* The operator removes an uploaded file from the server's disk.
RemoveSource ==
    /\ \E f \in uploadDir : uploadDir' = uploadDir \ {f}
    /\ UNCHANGED <<moviepy, assets, uploadLog, renders, outputs, clock,
                   nextId, req>>

\* start = max(0.0, float(payload.start or 0.0))
TrimStart(p) == Max(0, IF p.start # 0 THEN p.start ELSE 0)

\* end = float(payload.end) if payload.end else clip.duration; min(end, D)
TrimEnd(p, D) == Min(IF Truthy(p.end) THEN Val(p.end) ELSE D, D)

\* The lookup passes any value through.
RotateMap_any(x) == x

\* rotate_map.get(int(payload.rotate or 0), 0)
RotateMap(x) == IF x \in {0, 90, 180, 270} THEN x ELSE 0

\* if payload.resolution_width and payload.resolution_height
WantsResize(p) == Truthy(p.resolution_width) /\ Truthy(p.resolution_height)

Chain == <<"trim", "speed", "rotate", "volume", "resize">>
StepIndex(s) == CHOOSE i \in 1..Len(Chain) : Chain[i] = s

\* The steps of the chain the handler calls for payload p.
Applicable(p, hasAudio) ==
    {"trim"}
    \cup (IF p.speed # 0 /\ p.speed # 1 THEN {"speed"} ELSE {})
    \cup (IF RotateMap(p.rotate) # 0 THEN {"rotate"} ELSE {})
    \cup (IF hasAudio THEN {"volume"} ELSE {})
    \cup (IF WantsResize(p) THEN {"resize"} ELSE {})

\* The transform chain: trim, speed, rotate, volume, resize.  Any
\* step that is called may raise; subclip raises when start exceeds the
\* clip's duration.
RenderTransform(r) ==
    /\ req[r].pc = "transform"
    /\ LET q == req[r]
           p == q.payload
           D == Val(q.clip).duration
           start == TrimStart(p)
           end == TrimEnd(p, D)
           steps == Applicable(p, q.audio = "open")
       IN  \E failAt \in {"none"} \cup steps :
             /\ (start > D) => failAt = "trim"
             /\ req' = [req EXCEPT ![r] =
                    IF failAt = "none"
                    THEN [@ EXCEPT !.pc = "encode", !.start = start,
                            !.end = end, !.applied = steps, !.sub = "open"]
                    ELSE [Raise(@, 500, failAt) EXCEPT
                            !.start = start, !.end = end,
                            !.applied = {s \in steps :
                                StepIndex(s) < StepIndex(failAt)},
                            !.sub = IF failAt = "trim" THEN "none"
                                    ELSE "open"]]
    /\ UNCHANGED <<moviepy, assets, uploadDir, uploadLog, renders, outputs,
                   clock, nextId>>

\* out_name = f"render_{utcnow:%Y%m%d%H%M%S%f}.mp4"
OutName(r) == <<clock>>

\* The close calls after the encode, in order; the first that raises ends
\* the block (except Exception: pass).
CloseFailures(q) ==
    {"none", "reader", "sub", "clip"}
    \cup (IF q.audio = "open" THEN {"audio"} ELSE {})

Closed(q, failAt) ==
    [q EXCEPT
       !.reader = IF failAt = "reader" THEN "open" ELSE "closed",
       !.audio = IF q.audio = "none" THEN "none"
                 ELSE IF failAt \in {"reader", "audio"} THEN "open"
                 ELSE "closed",
       !.sub = IF failAt \in {"reader", "audio", "sub"} THEN "open"
               ELSE "closed"]

RenderDoc(q, id) ==
    [id |-> id, project_id |-> q.payload.project_id,
     asset_id |-> q.payload.asset_id, start |-> q.start, end |-> q.end,
     speed |-> q.payload.speed, volume |-> q.payload.volume,
     rotate |-> q.payload.rotate,
     resolution_width |-> q.payload.resolution_width,
     resolution_height |-> q.payload.resolution_height,
     status |-> "completed", output_url |-> Val(q.out_name)]

\* The record is inserted as soon as the encode starts.
RenderEncodeStart_early(r) ==
    /\ req[r].pc = "encode"
    /\ \E ok \in BOOLEAN :
         LET name == OutName(r)
         IN  IF ok
             THEN /\ outputs' = [f \in DOMAIN outputs \cup {name} |->
                                    IF f = name THEN "partial" ELSE outputs[f]]
                  /\ renders' = renders \cup
                         {RenderDoc([req[r] EXCEPT !.out_name = Some(name)],
                                    nextId)}
                  /\ nextId' = nextId + 1
                  /\ req' = [req EXCEPT ![r].pc = "encoding",
                                        ![r].out_name = Some(name),
                                        ![r].render_id = Some(nextId)]
             ELSE /\ req' = [req EXCEPT ![r] =
                         [Raise(@, 500, "encode_start") EXCEPT
                             !.out_name = Some(name)]]
                  /\ UNCHANGED <<outputs, renders, nextId>>
    /\ UNCHANGED <<moviepy, assets, uploadDir, uploadLog, clock>>

\* The output name is generated and write_videofile starts: it creates the
\* file, or raises before it has.
RenderEncodeStart(r) ==
    /\ req[r].pc = "encode"
    /\ \E ok \in BOOLEAN :
         LET name == OutName(r)
         IN  IF ok
             THEN /\ outputs' = [f \in DOMAIN outputs \cup {name} |->
                                    IF f = name THEN "partial" ELSE outputs[f]]
                  /\ req' = [req EXCEPT ![r].pc = "encoding",
                                        ![r].out_name = Some(name)]
             ELSE /\ req' = [req EXCEPT ![r] =
                         [Raise(@, 500, "encode_start") EXCEPT
                             !.out_name = Some(name)]]
                  /\ UNCHANGED outputs
    /\ UNCHANGED <<moviepy, assets, uploadDir, uploadLog, renders, clock,
                   nextId>>

\* write_videofile returns with the file complete, or raises partway and
\* leaves what it wrote.
RenderEncodeFinish(r) ==
    /\ req[r].pc = "encoding"
    /\ \E ok \in BOOLEAN :
         IF ok
         THEN /\ outputs' = [outputs EXCEPT ![Val(req[r].out_name)] = "complete"]
              /\ req' = [req EXCEPT ![r].pc = "finish", ![r].encoded = TRUE]
         ELSE /\ req' = [req EXCEPT ![r] = Raise(@, 500, "encode")]
              /\ UNCHANGED outputs
    /\ UNCHANGED <<moviepy, assets, uploadDir, uploadLog, renders, clock,
                   nextId>>

\* After the encode: the close calls, then the record is inserted and the
\* response returned; a failed insert is caught and answered with 500.
RenderFinish(r) ==
    /\ req[r].pc = "finish"
    /\ \E failAt \in CloseFailures(req[r]), dbOk \in BOOLEAN :
         LET q == Closed(req[r], failAt)
         IN  IF dbOk
             THEN /\ renders' = renders \cup {RenderDoc(q, nextId)}
                  /\ nextId' = nextId + 1
                  /\ req' = [req EXCEPT ![r] =
                         [q EXCEPT !.pc = "done", !.status = 200,
                                   !.render_id = Some(nextId)]]
             ELSE /\ req' = [req EXCEPT ![r] = Raise(q, 500, "insert")]
                  /\ UNCHANGED <<renders, nextId>>
    /\ UNCHANGED <<moviepy, assets, uploadDir, uploadLog, outputs, clock>>

\* ---------------------------------------------------------- specifications
\* Two uploaded videos, one in each project, as /assets/upload stores them.
SeedAssets ==
    {[id |-> 1, project_id |-> "p1", kind |-> "video",
      duration |-> Some(MediaAV.duration), width |-> Some(MediaAV.w),
      height |-> Some(MediaAV.h), path |-> <<0, "a.mp4">>],
     [id |-> 2, project_id |-> "p2", kind |-> "video",
      duration |-> Some(MediaV.duration), width |-> Some(MediaV.w),
      height |-> Some(MediaV.h), path |-> <<0, "b.mp4">>]}

SeedFiles ==
    {[path |-> <<0, "a.mp4">>, media |-> MediaAV],
     [path |-> <<0, "b.mp4">>, media |-> MediaV]}

AssetIds == {1, 2, 7}

Payload(project, asset, start, end, speed, volume, rotate, w, h) ==
    [project_id |-> project, asset_id |-> asset, start |-> start,
     end |-> end, speed |-> speed, volume |-> volume, rotate |-> rotate,
     resolution_width |-> w, resolution_height |-> h]

\* Requests of the concurrent specification: project p1 asks for its own
\* asset, for the asset of p2 and for an id no asset has; defaults for
\* every edit.
ConcPayloads ==
    {Payload("p1", a, 0, None, 1, 1, 0, None, None) : a \in AssetIds}

Starts == {-1, 0, 1, 4}
Ends == {None, Some(0), Some(1), Some(2), Some(4)}
Speeds == {1, 2}
Rotations == {0, 45, 90, 180, 270, -90, 360}
Widths == {None, Some(0), Some(640)}
Heights == {None, Some(480)}

\* Requests of the single-request specification: every edit parameter varies.
WidePayloads ==
    {Payload(p, a, s, e, sp, 1, ro, w, h) :
        p \in Projects, a \in {1, 2}, s \in Starts, e \in Ends,
        sp \in Speeds, ro \in Rotations, w \in Widths, h \in Heights}

FileNames == {"a.mp4"}
ProbeFailureKinds == {"none", "open", "reader_close", "close"}

\* The server with two assets uploaded and no request in flight.
Init ==
    /\ moviepy \in BOOLEAN
    /\ assets = SeedAssets
    /\ uploadDir = SeedFiles
    /\ uploadLog = <<>>
    /\ renders = {}
    /\ outputs = <<>>
    /\ clock = 0
    /\ nextId = 3
    /\ req = [r \in Reqs |-> IdleReq]

\* The server as started, with an empty database.
InitUpload ==
    /\ moviepy \in BOOLEAN
    /\ assets = {}
    /\ uploadDir = {}
    /\ uploadLog = <<>>
    /\ renders = {}
    /\ outputs = <<>>
    /\ clock = 0
    /\ nextId = 1
    /\ req = [r \in Reqs |-> IdleReq]

Render(r, P) ==
    \/ RenderFetch(r, P)
    \/ RenderOpen(r)
    \/ RenderTransform(r)
    \/ RenderEncodeStart(r)
    \/ RenderEncodeFinish(r)
    \/ RenderFinish(r)

\* Concurrent render requests (FastAPI runs the sync handler in a thread pool).
Next ==
    \/ \E r \in Reqs : Render(r, ConcPayloads)
    \/ RemoveSource
    \/ Tick

\* One render request, every edit parameter varying.
NextParams == \E r \in ParamReqs : Render(r, WidePayloads)

\* Uploads.
NextUpload ==
    \/ \E project \in Projects, ct \in ContentTypes, fname \in FileNames,
          media \in Medias, failAt \in ProbeFailureKinds, dbOk \in BOOLEAN :
          UploadAsset(project, ct, fname, media, failAt, dbOk)
    \/ Tick

Spec == Init /\ [][Next]_vars
SpecParams == Init /\ [][NextParams]_vars
SpecUpload == InitUpload /\ [][NextUpload]_vars

\* ------------------------------------------------------------------ claims
Succeeded(r) == req[r].pc = "done" /\ req[r].status = 200
RecordsOf(r) == {rec \in renders : Some(rec.id) = req[r].render_id}
ValidationStatus == {400, 422}

C2_FailedRenderLeavesNothing ==
    /\ Cardinality(renders) = Cardinality({r \in Reqs : Succeeded(r)})
    /\ \A r \in Reqs :
         (req[r].pc = "done" /\ req[r].status # 200) =>
             /\ RecordsOf(r) = {}
             /\ req[r].out_name # None =>
                    Val(req[r].out_name) \notin DOMAIN outputs

\* C3: a request that opened the source clip has, when it is done, closed
\* the source clip's readers and the transformed clip.
C3_HandlesReleased ==
    \A r \in Reqs :
        (req[r].pc = "done" /\ req[r].reader # "none") =>
            /\ req[r].reader = "closed"
            /\ req[r].audio \in {"none", "closed"}
            /\ req[r].sub \in {"none", "closed"}

HasAsset(p, inProject) ==
    \E a \in assets :
        /\ a.id = p.asset_id
        /\ inProject => a.project_id = p.project_id

\* C4 as stated: the asset is resolved whenever an asset of any project has
\* the requested id; 404 "Asset not found" only when none has.
C4_FallbackUnscoped ==
    \A r \in Reqs :
        (req[r].pc # "idle" /\ moviepy) =>
            /\ (req[r].failedAt = "asset") <=> ~HasAsset(req[r].payload, FALSE)
            /\ (req[r].failedAt = "asset") => req[r].status = 404

\* C4, amended: both lookups are scoped to the request's project; the asset
\* is resolved exactly when an asset of that project has the requested id,
\* and it is that asset; otherwise the answer is 404.
C4_LookupScopedToProject ==
    \A r \in Reqs :
        (req[r].pc # "idle" /\ moviepy) =>
            /\ (req[r].failedAt = "asset") <=> ~HasAsset(req[r].payload, TRUE)
            /\ (req[r].failedAt = "asset") =>
                   (req[r].status = 404 /\ req[r].asset = None)
            /\ req[r].asset # None =>
                   /\ Val(req[r].asset).id = req[r].payload.asset_id
                   /\ Val(req[r].asset).project_id = req[r].payload.project_id

\* A request was answered 404 although an asset of another project has the
\* requested id.
C4_Witness ==
    \E r \in Reqs :
        /\ req[r].pc = "done" /\ req[r].status = 404
        /\ req[r].failedAt = "asset"
        /\ \E a \in assets :
             /\ a.id = req[r].payload.asset_id
             /\ a.project_id # req[r].payload.project_id

\* The request has created its output file under its generated name.
Wrote(q) == q.out_name # None /\ q.failedAt # "encode_start"

\* C5: no two requests write their output under the same generated name,
\* and no two records carry the same output URL.
C5_DistinctOutputNames ==
    /\ \A r1, r2 \in Reqs :
         (r1 # r2 /\ Wrote(req[r1]) /\ Wrote(req[r2])) =>
             req[r1].out_name # req[r2].out_name
    /\ \A rec1, rec2 \in renders :
         rec1 # rec2 => rec1.output_url # rec2.output_url

\* The trim window the specification describes, for source duration D.
ClaimStart(p, D) == Min(Max(p.start, 0), D)
ClaimEnd(p, D) == IF p.end = None THEN D ELSE Min(Val(p.end), D)
EmptyWindow(q) ==
    ClaimEnd(q.payload, Val(q.clip).duration)
        <= ClaimStart(q.payload, Val(q.clip).duration)

\* No call into the media engine or the database raised during the request.
NothingRaised(q) == q.failedAt = "none"

\* C6: a request whose clamped trim window has end <= start is rejected
\* with a validation error (4xx) and leaves no record, when nothing else
\* failed first.
C6_EmptyWindowRejected ==
    \A r \in Reqs :
        (req[r].pc = "done" /\ req[r].clip # None /\ EmptyWindow(req[r])
            /\ NothingRaised(req[r])) =>
            /\ req[r].status \in ValidationStatus
            /\ RecordsOf(r) = {}

ExactlyOneDimension(p) ==
    (p.resolution_width = None) # (p.resolution_height = None)

\* C7: a request that supplies exactly one of width and height is rejected
\* with a validation error and produces neither output nor record, when
\* nothing else failed first; the resize step runs only when both are
\* supplied.
C7_SingleDimensionRejected ==
    \A r \in Reqs :
        /\ (req[r].pc = "done" /\ req[r].clip # None
                /\ ExactlyOneDimension(req[r].payload)
                /\ NothingRaised(req[r])) =>
               /\ req[r].status \in ValidationStatus
               /\ RecordsOf(r) = {}
               /\ req[r].out_name = None
        /\ "resize" \in req[r].applied =>
               /\ req[r].payload.resolution_width # None
               /\ req[r].payload.resolution_height # None

\* C8: the window passed to the trim, and stored in the record, is start
\* clamped into [0, D] and min(end, D), or D when end is unset.
C8_TrimWindowClamped ==
    \A r \in Reqs :
        /\ "trim" \in req[r].applied =>
               /\ req[r].start = ClaimStart(req[r].payload, Val(req[r].clip).duration)
               /\ req[r].end = ClaimEnd(req[r].payload, Val(req[r].clip).duration)
        /\ \A rec \in RecordsOf(r) :
               /\ rec.start = ClaimStart(req[r].payload, Val(req[r].clip).duration)
               /\ rec.end = ClaimEnd(req[r].payload, Val(req[r].clip).duration)

PastRotate(q) ==
    \/ q.pc \in {"encode", "encoding", "finish"}
    \/ /\ q.pc = "done"
       /\ q.failedAt \in {"none", "volume", "resize", "encode_start",
                          "encode", "insert"}

\* C9: the rotate step is applied exactly when rotate is 90, 180 or 270; any
\* other integer is handled as 0: no rotation, no failure in the rotate
\* step, no rejection.
C9_RotateOnlyQuarterTurns ==
    \A r \in Reqs :
        /\ PastRotate(req[r]) =>
               ("rotate" \in req[r].applied
                    <=> req[r].payload.rotate \in {90, 180, 270})
        /\ "rotate" \in req[r].applied =>
               req[r].payload.rotate \in {90, 180, 270}
        /\ req[r].payload.rotate \notin {90, 180, 270} =>
               /\ req[r].failedAt # "rotate"
               /\ req[r].status \notin ValidationStatus

\* A request with rotate = 45 completed, unrotated.
C9_Witness ==
    \E r \in Reqs :
        /\ Succeeded(r)
        /\ req[r].payload.rotate = 45
        /\ "rotate" \notin req[r].applied
        /\ RecordsOf(r) # {}

Supported(ct) == ct # None /\ Val(ct)[1] \in {"video", "audio", "image"}
ProbeFailed(e) == Supported(e.content_type) /\ e.probe # "none" /\ e.insert
AssetsOf(e) == {a \in assets : Some(a.id) = e.id}

\* C10 as stated: an upload whose probe raised succeeds with exactly one
\* asset of the right kind, with duration, width and height unset.
C10_ProbeFailureLeavesFieldsUnset ==
    \A i \in DOMAIN uploadLog :
        ProbeFailed(uploadLog[i]) =>
            /\ uploadLog[i].status = 200
            /\ Cardinality(AssetsOf(uploadLog[i])) = 1
            /\ \A a \in AssetsOf(uploadLog[i]) :
                 /\ a.kind = Val(uploadLog[i].content_type)[1]
                 /\ a.duration = None /\ a.width = None /\ a.height = None

\* C10, amended: an upload whose probe raised succeeds with exactly one
\* asset of the right kind; duration, width and height are unset when the
\* container could not be opened, and keep the values read when the probe
\* raised later, while closing the reader or the clip.
C10_ProbeFailureSwallowed ==
    \A i \in DOMAIN uploadLog :
        ProbeFailed(uploadLog[i]) =>
            /\ uploadLog[i].status = 200
            /\ Cardinality(AssetsOf(uploadLog[i])) = 1
            /\ \A a \in AssetsOf(uploadLog[i]) :
                 /\ a.kind = Val(uploadLog[i].content_type)[1]
                 /\ uploadLog[i].probe = "open" =>
                        (a.duration = None /\ a.width = None /\ a.height = None)
                 /\ uploadLog[i].probe # "open" =>
                        (a.width # None /\ a.height # None)

\* Two uploads succeeded, one whose container could not be opened and one
\* whose reader failed to close.
C10_Witness ==
    \E i, j \in DOMAIN uploadLog :
        /\ uploadLog[i].probe = "open" /\ uploadLog[i].status = 200
        /\ AssetsOf(uploadLog[i]) # {}
        /\ uploadLog[j].probe = "reader_close" /\ uploadLog[j].status = 200
        /\ AssetsOf(uploadLog[j]) # {}

====
